---- MODULE Spec2Model ----
(***************************************************************************)
(* A model of onebrc (src/src/main.rs): per-key min/mean/max over a file   *)
(* of `key;value\n` records, computed either by one scan of the whole file *)
(* or by `cpus` worker threads that each align a byte range to line        *)
(* terminators, report the aligned range on a channel, scan it and hand a  *)
(* table back to the coordinator, which audits the ranges and merges the   *)
(* tables.  Bytes are ASCII codes, a byte string is a sequence of them.    *)
(* A panic is a result with ok = FALSE.                                    *)
(***************************************************************************)
EXTENDS Integers, Sequences, FiniteSets, TLC

\* ------------------------------------------------------------------ bytes
NL    == 10
SEMI  == 59
MINUS == 45
DOT   == 46
ZERO  == 48
NINE  == 57

\* i64::MAX and i64::MIN, narrowed to the integers TLC can represent; every
\* value of the model lies strictly between them.
I64_MAX == 2147483647
I64_MIN == -2147483647

\* Bytes read by the two boundary lookaheads.
LookaheadLen == 50

Min(a, b) == IF a <= b THEN a ELSE b
Max(a, b) == IF a >= b THEN a ELSE b

\* ------------------------------------------------------------------- City
\* (the Default a derive would give: every field 0)
CityZeroed == [min |-> 0, max |-> 0, sum |-> 0, occurrences |-> 0]

CityDefault == [min |-> I64_MAX, max |-> I64_MIN, sum |-> 0, occurrences |-> 0]

add_new_value(self, new) ==
    [min |-> Min(self.min, new), max |-> Max(self.max, new),
     sum |-> self.sum + new, occurrences |-> self.occurrences + 1]

add_result(self, other) ==
    [min |-> Min(self.min, other.min), max |-> Max(self.max, other.max),
     sum |-> self.sum + other.sum,
     occurrences |-> self.occurrences + other.occurrences]

\* One step of the loop of add_new over the byte `char`; acc = [ok, val, is_neg].
\* (a parser that treats '.' as a decimal shift)
FoldByteShiftDot(acc, char) ==
    IF char >= ZERO /\ char <= NINE
    THEN [acc EXCEPT !.val = acc.val * 10 + (char - ZERO)]
    ELSE IF char = MINUS THEN [acc EXCEPT !.is_neg = TRUE]
    ELSE IF char = DOT THEN [acc EXCEPT !.val = acc.val * 10]
    ELSE [acc EXCEPT !.ok = FALSE]

FoldByte(acc, char) ==
    IF char >= ZERO /\ char <= NINE
    THEN [acc EXCEPT !.val = acc.val * 10 + (char - ZERO)]
    ELSE IF char = MINUS THEN [acc EXCEPT !.is_neg = TRUE]
    ELSE IF char = DOT THEN acc
    ELSE [acc EXCEPT !.ok = FALSE]

RECURSIVE FoldValue(_, _, _)
FoldValue(input, i, acc) ==
    IF i > Len(input) \/ ~acc.ok THEN acc
    ELSE FoldValue(input, i + 1, FoldByte(acc, input[i]))

\* The integer add_new hands to add_new_value, or ok = FALSE when it panics.
ParseValue(input) ==
    LET r == FoldValue(input, 1, [ok |-> TRUE, val |-> 0, is_neg |-> FALSE])
    IN  [ok |-> r.ok, val |-> IF r.is_neg THEN 0 - r.val ELSE r.val]

add_new(self, input) ==
    LET p == ParseValue(input)
    IN  IF p.ok THEN [ok |-> TRUE, city |-> add_new_value(self, p.val)]
        ELSE [ok |-> FALSE, city |-> self]

\* ---------------------------------------------------------------- Citymap
\* A Citymap is a function from u32 digests to [name, city].
EmptyMap == [h \in {} |-> [name |-> <<>>, city |-> CityDefault]]

\* b[0], b[1], b[2] are read unchecked: a key of fewer than 3 bytes panics.
hashstr_ok(s) == Len(s) >= 3

hashstr(s) == (Len(s) % 256) + 256 * s[1] + 65536 * s[2] + 16777216 * s[3]

\* lookup: [ok, map, slot]; slot is the digest whose aggregate is returned.
lookup(map, key) ==
    IF ~hashstr_ok(key) THEN [ok |-> FALSE, map |-> map, slot |-> 0]
    ELSE LET hash == hashstr(key)
         IN  [ok |-> TRUE,
              map |-> IF hash \in DOMAIN map THEN map
                      ELSE [h \in DOMAIN map \cup {hash} |->
                              IF h = hash
                              THEN [name |-> key, city |-> CityDefault]
                              ELSE map[h]],
              slot |-> hash]

\* (a merge that inserts every entry of rhs, replacing the entry self has)
merge_with_insert(self, rhs) ==
    [k \in DOMAIN self \cup DOMAIN rhs |->
        IF k \in DOMAIN rhs THEN rhs[k] ELSE self[k]]

merge_with(self, rhs) ==
    [k \in DOMAIN self \cup DOMAIN rhs |->
        IF k \in DOMAIN rhs
        THEN IF k \in DOMAIN self
             THEN [name |-> self[k].name,
                   city |-> add_result(self[k].city, rhs[k].city)]
             ELSE rhs[k]
        ELSE self[k]]

\* into_key_values: the (name, city) pairs, without the digests.
into_key_values(map) == {map[h] : h \in DOMAIN map}

\* ---------------------------------------------------------- citymap_naive
\* 1-based index of the first byte equal to b at or after index i, 0 if none.
IndexFrom(s, b, i) ==
    LET hits == { j \in i .. Len(s) : s[j] = b }
    IN  IF hits = {} THEN 0 ELSE CHOOSE j \in hits : \A k \in hits : j <= k

\* read_until(b'\n'): the bytes from offset pos (0-based) up to and including
\* the next terminator, or up to the end of the stream when there is none.
read_until(input, pos) ==
    LET nl == IndexFrom(input, NL, pos + 1)
    IN  SubSeq(input, pos + 1, IF nl = 0 THEN Len(input) ELSE nl)

\* The value slice &buf[(i + 1)..(buf.len() - 1)], i being the 1-based index
\* of the first ';': the last byte of the buffer is left out.
ValueSlice(buf, i) == SubSeq(buf, i + 1, Len(buf) - 1)

\* The loop of citymap_naive.  pos: bytes consumed from the stream; buf: the
\* line buffer on entry to the iteration; log: one entry per call of lookup,
\* [key, val, semi] with semi the stream offset of the ';' found (history).
\* The result is [ok, map, log]; ok = FALSE when the scan panicked.
\* The `continue` on a line that is only a terminator skips the buf.clear()
\* at the end of the body, so the next line is appended to that byte.  A ';'
\* that is the last byte of the buffer makes the value slice start past its
\* end, which panics.
RECURSIVE NaiveLoop(_, _, _, _, _)
NaiveLoop(input, pos, buf0, map, log) ==
    LET line == read_until(input, pos)
        read == Len(line)
        buf  == buf0 \o line
        i    == IndexFrom(buf, SEMI, 1)
        city == SubSeq(buf, 1, i - 1)
        val  == ValueSlice(buf, i)
        log1 == Append(log, [key |-> city, val |-> val,
                             semi |-> pos + read - Len(buf) + i - 1])
        lk   == lookup(map, city)
        an   == add_new(lk.map[lk.slot].city, val)
    IN  IF read = 0 THEN [ok |-> TRUE, map |-> map, log |-> log]
        ELSE IF buf = <<NL>>
        THEN NaiveLoop(input, pos + read, buf, map, log)
        ELSE IF i = 0 THEN [ok |-> FALSE, map |-> map, log |-> log]
        ELSE IF i = Len(buf) THEN [ok |-> FALSE, map |-> map, log |-> log]
        ELSE IF ~lk.ok THEN [ok |-> FALSE, map |-> map, log |-> log1]
        ELSE IF ~an.ok THEN [ok |-> FALSE, map |-> lk.map, log |-> log1]
        ELSE NaiveLoop(input, pos + read, <<>>,
                       [lk.map EXCEPT ![lk.slot].city = an.city], log1)

citymap_naive(input) == NaiveLoop(input, 0, <<>>, EmptyMap, <<>>)

citymap_single_thread(f) == citymap_naive(f)

\* ---------------------------------------------------------- citymap_thread
\* file.read_at(&mut head, offset) with head of LookaheadLen bytes, truncated
\* to the bytes read.
read_at(f, offset) == SubSeq(f, offset + 1, Min(offset + LookaheadLen, Len(f)))

\* The offset after the `for (i, &pos) in head.iter().enumerate()` loop: moved
\* to the first terminator of the window, left alone when there is none.
AlignTo(f, offset) ==
    LET k == IndexFrom(read_at(f, offset), NL, 1)
    IN  IF k = 0 THEN offset ELSE offset + (k - 1)

\* Head alignment (skipped at the start of the file), then tail alignment.
AlignRange(f, range) ==
    [start |-> IF range.start # 0 THEN AlignTo(f, range.start) ELSE range.start,
     end   |-> AlignTo(f, range.end)]

\* The bytes the worker's reader yields: seek to range.start, then
\* take(range.end - range.start).
RangeStream(f, range) == SubSeq(f, range.start + 1, range.end)

\* ------------------------------------------------------------------ inputs
Paris == <<80, 97, 114, 105, 115>>
Tokyo == <<84, 111, 107, 121, 111>>
Pari  == <<80, 97, 114, 105>>
Para  == <<80, 97, 114, 97>>
Ab    == <<97, 98>>
Berlin == <<66, 101, 114, 108, 105, 110>>
Ulm    == <<85, 108, 109>>

RECURSIVE Digits(_)
Digits(n) == IF n < 10 THEN <<ZERO + n>> ELSE Append(Digits(n \div 10), ZERO + (n % 10))

\* The text `<sign>?<digits>.<digit>` of the scaled value v (v = value * 10).
ValueText(v) ==
    LET a == IF v < 0 THEN 0 - v ELSE v
    IN  (IF v < 0 THEN <<MINUS>> ELSE <<>>) \o Digits(a \div 10) \o <<DOT>> \o Digits(a % 10)

\* One line of the file.
Line(key, v) == key \o <<SEMI>> \o ValueText(v) \o <<NL>>

RECURSIVE Concat(_)
Concat(ls) == IF ls = <<>> THEN <<>> ELSE Head(ls) \o Concat(Tail(ls))

\* The example of the specification, `Paris;12.3\nParis;-4.5\nTokyo;0.0\n`.
ExampleFile == Concat(<<Line(Paris, 123), Line(Paris, -45), Line(Tokyo, 0)>>)

\* A key of n bytes 'x'.
LongKey(n) == [i \in 1 .. n |-> 120]

\* A 25-byte line followed by an 8-byte line (33 bytes): with 3 workers the
\* middle candidate range lies inside the first line.
LongFirstLineFile == Line(LongKey(20), 12) \o Line(Ulm, 5)

\* A line of 82 bytes, longer than a lookahead window, and a short line.
LongLineFile == Line(LongKey(77), 12) \o Line(Tokyo, 5)

\* `Tokyo;7.1\nParis;0.8`: the last line has no terminator.
UnterminatedFile ==
    Line(Tokyo, 71) \o Paris \o <<SEMI>> \o ValueText(8)

Files ==
    { ExampleFile,
      Concat(<<Line(Tokyo, 71), Line(Paris, 8)>>),
      Concat(<<Line(Pari, 10), Line(Para, 20), Line(Tokyo, -5)>>),
      Concat(<<Line(Tokyo, 15), Line(Ab, 3), Line(Paris, 105)>>),
      LongFirstLineFile,
      LongLineFile,
      UnterminatedFile,
      <<>> }

\* Files for a machine with more threads than the file has lines: 19 bytes
\* (per_thread = 1) and 8 bytes (per_thread = 0) for 10 workers.
WideFiles == { Concat(<<Line(Berlin, 12), Line(Ulm, 5)>>), Line(Ulm, 5) }

WideCpus == 10

\* Greatest worker count (available_parallelism) of the runs explored.
MaxCpus == 3

\* Greatest number of I/O errors the environment raises in one run.
MaxIoFaults == 1

\* ------------------------------------------------------------------- state
VARIABLES
    file,       \* the bytes of measurements.txt
    cpus,       \* available_parallelism()
    cpc,        \* where citymap_multi_threaded is
    index,      \* the coordinator's `index`
    threads,    \* number of join handles pushed
    wpc,        \* where each worker is
    wrange,     \* each worker's `range`
    chan,       \* ranges sent and not yet received
    ranges,     \* the coordinator's `ranges`
    wres,       \* what each finished worker's citymap_naive produced
    results,    \* the accumulator of the reduce
    joined,     \* number of workers joined
    ioFaults,   \* I/O errors raised so far
    hist,       \* history: who sent a range, began its scan, was merged
    lab         \* one call of a function on its own, outside a run

runVars == <<file, cpus, cpc, index, threads, wpc, wrange, chan, ranges, wres,
             results, joined, ioFaults, hist>>

vars == <<runVars, lab>>

Workers == 0 .. (cpus - 1)

size == Len(file)

per_thread == size \div cpus

NoResult == [ok |-> TRUE, map |-> EmptyMap, log |-> <<>>]

Aborted == cpc \in {"assert_failed", "join_panicked"}

InitRun(fs, ns) ==
    /\ file \in fs
    /\ cpus \in ns
    /\ cpc = "spawn"
    /\ index = 0
    /\ threads = 0
    /\ wpc = [w \in Workers |-> "unspawned"]
    /\ wrange = [w \in Workers |-> [start |-> 0, end |-> 0]]
    /\ chan = <<>>
    /\ ranges = <<>>
    /\ wres = [w \in Workers |-> NoResult]
    /\ results = EmptyMap
    /\ joined = 0
    /\ ioFaults = 0
    /\ hist = [sent |-> [w \in Workers |-> 0], senders |-> <<>>,
               scanned |-> {}, audited |-> FALSE,
               merged |-> [w \in Workers |-> 0]]
    /\ lab = [kind |-> "none"]

Init == InitRun(Files, 1 .. MaxCpus)

InitWide == InitRun(WideFiles, {WideCpus})

\* ---------------------------------------------------- citymap_multi_threaded
\* The body of `for i in 0..cpus`: cut the next candidate range, spawn worker i.
CoordSpawn ==
    /\ cpc = "spawn"
    /\ threads < cpus
    /\ wrange' = [wrange EXCEPT ![threads] =
                     [start |-> index, end |-> Min(index + per_thread, size)]]
    /\ index' = index + per_thread
    /\ wpc' = [wpc EXCEPT ![threads] = "start"]
    /\ threads' = threads + 1
    /\ cpc' = IF threads + 1 = cpus THEN "recv" ELSE "spawn"
    /\ UNCHANGED <<lab, file, cpus, chan, ranges, wres, results, joined, ioFaults,
                   hist>>

\* One receiver.recv().unwrap() of the collect.  The coordinator keeps its own
\* `sender`, so recv never sees a disconnected channel: it blocks while the
\* channel is empty.
CoordRecv ==
    /\ cpc = "recv"
    /\ chan # <<>>
    /\ ranges' = Append(ranges, Head(chan))
    /\ chan' = Tail(chan)
    /\ cpc' = IF Len(ranges) + 1 = cpus THEN "audit" ELSE "recv"
    /\ UNCHANGED <<lab, file, cpus, index, threads, wpc, wrange, wres, results,
                   joined, ioFaults, hist>>

\* x put into s at the 0-based position p.
InsertAt(s, p, x) == SubSeq(s, 1, p) \o <<x>> \o SubSeq(s, p + 1, Len(s))

\* The orders sort_unstable_by_key(|e| e.start) may leave rs in: every
\* arrangement ascending in start (equal keys in any order).
RECURSIVE SortOutcomes(_)
SortOutcomes(rs) ==
    IF rs = <<>> THEN {<<>>}
    ELSE UNION { { InsertAt(s, p, Head(rs)) :
                     p \in { q \in 0 .. Len(s) :
                               /\ \A j \in 1 .. q : s[j].start <= Head(rs).start
                               /\ \A j \in (q + 1) .. Len(s) :
                                     Head(rs).start <= s[j].start } }
                 : s \in SortOutcomes(Tail(rs)) }

\* ranges.windows(2).all(|e| e[0].end == e[1].start)
WindowsContiguous(rs) ==
    \A j \in 1 .. (Len(rs) - 1) : rs[j].end = rs[j + 1].start

\* Sort the collected ranges and assert that they are contiguous.
CoordAudit ==
    /\ cpc = "audit"
    /\ \E sorted \in SortOutcomes(ranges) :
          /\ ranges' = sorted
          /\ cpc' = IF WindowsContiguous(sorted) THEN "join" ELSE "assert_failed"
    /\ hist' = [hist EXCEPT !.audited = TRUE]
    /\ UNCHANGED <<lab, file, cpus, index, threads, wpc, wrange, chan, wres, results,
                   joined, ioFaults>>

\* One step of threads.into_iter().map(join().unwrap()).reduce(merge_with):
\* join the next worker in spawn order; a worker that panicked makes the
\* unwrap panic.
CoordJoin ==
    /\ cpc = "join"
    /\ joined < cpus
    /\ wpc[joined] \in {"done", "panicked"}
    /\ IF wpc[joined] = "panicked"
       THEN /\ cpc' = "join_panicked"
            /\ UNCHANGED <<results, joined, hist>>
       ELSE /\ results' = IF joined = 0 THEN wres[joined].map
                          ELSE merge_with(results, wres[joined].map)
            /\ joined' = joined + 1
            /\ cpc' = IF joined + 1 = cpus THEN "done" ELSE "join"
            /\ hist' = [hist EXCEPT !.merged[joined] = @ + 1]
    /\ UNCHANGED <<lab, file, cpus, index, threads, wpc, wrange, chan, ranges, wres,
                   ioFaults>>

\* ------------------------------------------------------------ citymap_thread
\* (a worker that reports its range before the alignment and again after it)
WorkerAlignSendTwice(w) ==
    /\ ~Aborted
    /\ wpc[w] = "start"
    /\ wrange' = [wrange EXCEPT ![w] = AlignRange(file, wrange[w])]
    /\ chan' = chan \o <<wrange[w], AlignRange(file, wrange[w])>>
    /\ wpc' = [wpc EXCEPT ![w] = "sent"]
    /\ hist' = [hist EXCEPT !.sent[w] = @ + 2, !.senders = @ \o <<w, w>>]
    /\ UNCHANGED <<lab, file, cpus, cpc, index, threads, ranges, wres, results,
                   joined, ioFaults>>

\* Open the file, align the range, send it to the coordinator.
WorkerAlign(w) ==
    /\ ~Aborted
    /\ wpc[w] = "start"
    /\ wrange' = [wrange EXCEPT ![w] = AlignRange(file, wrange[w])]
    /\ chan' = Append(chan, AlignRange(file, wrange[w]))
    /\ wpc' = [wpc EXCEPT ![w] = "sent"]
    /\ hist' = [hist EXCEPT !.sent[w] = @ + 1, !.senders = Append(@, w)]
    /\ UNCHANGED <<lab, file, cpus, cpc, index, threads, ranges, wres, results,
                   joined, ioFaults>>

\* Seek to the aligned start and scan the bounded stream; a panic of the scan
\* ends the thread without a table.
WorkerScan(w) ==
    /\ ~Aborted
    /\ wpc[w] = "sent"
    /\ LET res == citymap_naive(RangeStream(file, wrange[w]))
       IN  /\ wres' = [wres EXCEPT ![w] = res]
           /\ wpc' = [wpc EXCEPT ![w] = IF res.ok THEN "done" ELSE "panicked"]
    /\ hist' = [hist EXCEPT !.scanned = @ \cup {w}]
    /\ UNCHANGED <<lab, file, cpus, cpc, index, threads, wrange, chan, ranges,
                   results, joined, ioFaults>>

\* An I/O error makes an unwrap of the worker panic: File::open or read_at
\* before the range is sent, seek or read_until after it.
WorkerIoFail(w) ==
    /\ ~Aborted
    /\ wpc[w] \in {"start", "sent"}
    /\ ioFaults < MaxIoFaults
    /\ ioFaults' = ioFaults + 1
    /\ wpc' = [wpc EXCEPT ![w] = "panicked"]
    /\ UNCHANGED <<lab, file, cpus, cpc, index, threads, wrange, chan, ranges, wres,
                   results, joined, hist>>

Coordinator == CoordSpawn \/ CoordRecv \/ CoordAudit \/ CoordJoin

Worker(w) == WorkerAlign(w) \/ WorkerScan(w)

WorkerStep == \E w \in Workers : Worker(w)

IoFail == \E w \in Workers : WorkerIoFail(w)

Next == Coordinator \/ WorkerStep \/ IoFail

Spec == Init /\ [][Next]_vars

\* The schedules of the same program in which the threads run one after the
\* other: the coordinator spawns every worker, the workers then run to their
\* end in spawn order, and the coordinator goes on when none is left running.
\* What depends on the ranges alone is the same in every schedule.
Finished(w) == wpc[w] \in {"done", "panicked"}

WorkerTurn(w) ==
    /\ threads = cpus
    /\ \A v \in Workers : v < w => Finished(v)

CoordTurn == threads < cpus \/ \A w \in Workers : Finished(w)

NextWide ==
    \/ CoordTurn /\ Coordinator
    \/ \E w \in Workers : WorkerTurn(w) /\ Worker(w)
    \/ \E w \in Workers : WorkerTurn(w) /\ WorkerIoFail(w)

SpecWide == InitWide /\ [][NextWide]_vars

\* ------------------------------------------- functions called on their own
\* Calls of the parser, of lookup, of the scanner and of merge_with on inputs
\* drawn from bounded sets; `lab` records the inputs and what the call gave.

\* Most digits before the '.' of a value text.
MaxIntDigits == 2

\* Most lookup and update calls made on one table.
MaxLabOps == 3

\* Most lines of a scanned stream.
MaxLines == 2

\* Most lines of each stream scanned into a table that is merged.
MaxMergeLines == 1

LabKeys == {Paris, Pari, Para, Ab, Tokyo}

LabValues == {-45, 0, 123}

MergeKeys == {Pari, Para, Tokyo}

MergeValues == {-5, 20}

PairKeys == {Pari, Para, Tokyo, Paris}

\* The sequences of at most n elements of S.
SeqsUpTo(S, n) == UNION { [1 .. m -> S] : m \in 0 .. n }

\* The stream of the records rs, a sequence of <<key, scaled value>>.
StreamOf(rs) == Concat([i \in 1 .. Len(rs) |-> Line(rs[i][1], rs[i][2])])

\* add_new on a fresh aggregate, for the text `-?<digits>.<digit>`.
LabParse ==
    /\ lab.kind = "none"
    /\ \E neg \in BOOLEAN, fr \in 0 .. 9 :
       \E ds \in SeqsUpTo(0 .. 9, MaxIntDigits) \ {<<>>} :
          LET text == (IF neg THEN <<MINUS>> ELSE <<>>)
                        \o [i \in 1 .. Len(ds) |-> ZERO + ds[i]]
                        \o <<DOT, ZERO + fr>>
          IN  lab' = [kind |-> "parse", text |-> text, neg |-> neg,
                      ints |-> ds, frac |-> fr,
                      out |-> add_new(CityDefault, text)]
    /\ UNCHANGED runVars

LabTable ==
    [kind |-> "lookup", map |-> EmptyMap, slots |-> {}, entry |-> 0,
     failed |-> FALSE, first |-> FALSE, created |-> FALSE, n |-> 0]

\* map.lookup(k) on the table built so far.  slots: the <<key, digest>> of
\* every lookup made; first: k was never looked up before; created: the call
\* inserted an entry.
LabLookup ==
    /\ lab.kind \in {"none", "lookup"}
    /\ LET t == IF lab.kind = "none" THEN LabTable ELSE lab
       IN  /\ ~t.failed
           /\ t.n < MaxLabOps
           /\ \E k \in LabKeys :
                 LET r == lookup(t.map, k)
                 IN  lab' = [t EXCEPT
                               !.map = r.map,
                               !.slots = IF r.ok THEN @ \cup {<<k, r.slot>>} ELSE @,
                               !.entry = r.slot,
                               !.failed = ~r.ok,
                               !.first = \A p \in t.slots : p[1] # k,
                               !.created = DOMAIN r.map # DOMAIN t.map,
                               !.n = @ + 1]
    /\ UNCHANGED runVars

\* entry.add_new_value(v) through the reference the last lookup returned.
LabUpdate ==
    /\ lab.kind = "lookup"
    /\ ~lab.failed
    /\ lab.n < MaxLabOps
    /\ \E v \in LabValues :
          lab' = [lab EXCEPT !.map[lab.entry].city = add_new_value(@, v),
                             !.n = @ + 1]
    /\ UNCHANGED runVars

\* citymap_naive on a stream of well-formed lines.
LabScan ==
    /\ lab.kind = "none"
    /\ \E rs \in SeqsUpTo(LabKeys \X LabValues, MaxLines) :
          lab' = [kind |-> "scan", recs |-> rs,
                  out |-> citymap_naive(StreamOf(rs))]
    /\ UNCHANGED runVars

\* The tables citymap_naive builds from the streams of at most MaxMergeLines
\* lines.
MergeTables ==
    { citymap_naive(StreamOf(rs)).map :
        rs \in SeqsUpTo(MergeKeys \X MergeValues, MaxMergeLines) }

\* merge_with on three tables, each built by scanning a stream, in both
\* orders and both groupings.
LabMerge ==
    /\ lab.kind = "none"
    /\ \E A, B, C \in MergeTables :
          lab' = [kind |-> "merge", A |-> A, B |-> B, C |-> C,
                  AB |-> merge_with(A, B), BA |-> merge_with(B, A),
                  AB_C |-> merge_with(merge_with(A, B), C),
                  A_BC |-> merge_with(A, merge_with(B, C))]
    /\ UNCHANGED runVars

\* Lines without their terminator: two well-formed, one without ';', two
\* whose value holds the byte 'x'.
RawLines ==
    { Tokyo \o <<SEMI>> \o ValueText(15),
      Paris \o <<SEMI>> \o ValueText(-2),
      Tokyo,
      Tokyo \o <<SEMI, ZERO + 1, DOT, 120>>,
      Tokyo \o <<SEMI, 120, DOT, ZERO + 5>> }

\* The stream of the lines ls, each followed by its terminator; the last one
\* only when last_nl.
RawStream(ls, last_nl) ==
    Concat([i \in 1 .. Len(ls) |->
              IF i < Len(ls) \/ last_nl THEN Append(ls[i], NL) ELSE ls[i]])

\* citymap_naive on a stream of lines of any form, the stream ending with or
\* without a terminator.
LabScanRaw ==
    /\ lab.kind = "none"
    /\ \E ls \in SeqsUpTo(RawLines, MaxLines) \ {<<>>}, t \in BOOLEAN :
          lab' = [kind |-> "rawscan", lines |-> ls, last_nl |-> t,
                  out |-> citymap_naive(RawStream(ls, t))]
    /\ UNCHANGED runVars

\* The tables citymap_naive builds from the streams of at most MaxLines lines.
PairTables ==
    { citymap_naive(StreamOf(rs)).map :
        rs \in SeqsUpTo(PairKeys \X MergeValues, MaxLines) }

\* self.merge_with(other) on two tables, each built by scanning a stream.
LabMergePair ==
    /\ lab.kind = "none"
    /\ \E A, B \in PairTables :
          lab' = [kind |-> "merge2", self |-> A, other |-> B,
                  out |-> merge_with(A, B)]
    /\ UNCHANGED runVars

\* Aggregates: the default one and those with any min, max, sum and count.
LabCities ==
    {CityDefault}
      \cup [min : LabValues \cup {I64_MIN, I64_MAX},
           max : LabValues \cup {I64_MIN, I64_MAX},
           sum : LabValues, occurrences : 1 .. MaxLines]

\* add_result with City::default() on either side of an aggregate a, and the
\* first add_new_value(v) on City::default().
LabIdentity ==
    /\ lab.kind = "none"
    /\ \E a \in LabCities, v \in LabValues :
          lab' = [kind |-> "identity", a |-> a, v |-> v,
                  left |-> add_result(a, CityDefault),
                  right |-> add_result(CityDefault, a),
                  first |-> add_new_value(CityDefault, v)]
    /\ UNCHANGED runVars

InitTable == InitRun({<<>>}, {1})

NextTable ==
    \/ LabParse \/ LabLookup \/ LabUpdate \/ LabScan \/ LabScanRaw
    \/ LabMerge \/ LabMergePair \/ LabIdentity

TableSpec == InitTable /\ [][NextTable]_vars

\* ------------------------------------------------------- the file's records
IsDigit(b) == b >= ZERO /\ b <= NINE

\* `<sign>?<digits>.<digit>`
IsValueText(t) ==
    LET body == IF t # <<>> /\ t[1] = MINUS THEN Tail(t) ELSE t
        n    == Len(body)
    IN  /\ n >= 3
        /\ body[n - 1] = DOT
        /\ IsDigit(body[n])
        /\ \A i \in 1 .. (n - 2) : IsDigit(body[i])

\* `<key>;<value>`, the key not empty and free of ';'.
IsRecordText(l) ==
    \E i \in 2 .. Len(l) :
        /\ l[i] = SEMI
        /\ \A j \in 1 .. (i - 1) : l[j] # SEMI
        /\ IsValueText(SubSeq(l, i + 1, Len(l)))

\* 1-based index of the first byte of the line that holds index p.
LineStart(f, p) ==
    LET starts == { q \in 1 .. p : q = 1 \/ f[q - 1] = NL }
    IN  CHOOSE q \in starts : \A k \in starts : k <= q

\* 1-based index of the terminator of the line that holds index p, or one
\* past the end of f when the line has none.
LineEnd(f, p) ==
    LET nl == IndexFrom(f, NL, p) IN IF nl = 0 THEN Len(f) + 1 ELSE nl

\* Every line of f is `key;value\n`.
WellFormed(f) ==
    /\ f # <<>> => f[Len(f)] = NL
    /\ \A p \in 1 .. Len(f) :
          (p = 1 \/ f[p - 1] = NL) => IsRecordText(SubSeq(f, p, LineEnd(f, p) - 1))

\* A record is named by the file offset (0-based) of its ';'.
Records(f) == { p - 1 : p \in { q \in 1 .. Len(f) : f[q] = SEMI } }

RecordKey(f, r) == SubSeq(f, LineStart(f, r + 1), r)

RecordValue(f, r) == SubSeq(f, r + 2, LineEnd(f, r + 1) - 1)

\* The records worker w handed to lookup, by the file offset of their ';'.
ScannedBy(w) ==
    { wrange[w].start + wres[w].log[i].semi : i \in 1 .. Len(wres[w].log) }

\* The candidate range worker w was spawned with.
Candidate(w) ==
    [start |-> w * per_thread, end |-> Min((w + 1) * per_thread, size)]

AllDone == \A w \in Workers : wpc[w] = "done"

AuditDone == cpc \in {"join", "done", "join_panicked", "assert_failed"}

\* ------------------------------------------------------------------ claims

\* C11: the candidate range worker i is spawned with is
\* [i * per_thread, min((i + 1) * per_thread, L)), and the candidate of the
\* last worker ends at L, so that the candidates cover [0, L).
C11_CandidatesCoverFile ==
    \A w \in Workers :
        wpc[w] = "start"
          => /\ wrange[w] = Candidate(w)
             /\ (w = cpus - 1 => wrange[w].end = size)

\* C12: whatever the file and the worker count, the contiguity audit of the
\* aligned ranges never fails: the coordinator never panics in its assert_eq.
C12_AuditNeverFails == cpc # "assert_failed"

\* The lookahead window read at the offset holds no terminator.
NoTerminator(offset) == IndexFrom(read_at(file, offset), NL, 1) = 0

\* The offset b lies inside a record of f: it is neither an end of the file,
\* nor on a terminator, nor on the first byte of a line.
InsideRecord(f, b) ==
    /\ 0 < b
    /\ b < Len(f)
    /\ f[b + 1] # NL
    /\ f[b] # NL

\* C13: a worker whose lookahead window at a candidate boundary holds no
\* terminator never goes on to scan with that boundary left inside a record.
C13_NoSilentTruncation ==
    \A w \in Workers :
        wpc[w] = "done"
          => /\ (Candidate(w).start # 0 /\ NoTerminator(Candidate(w).start))
                   => ~InsideRecord(file, wrange[w].start)
             /\ NoTerminator(Candidate(w).end)
                   => ~InsideRecord(file, wrange[w].end)

\* The line l, not empty, has no ';', or its value (the bytes after its first
\* ';') holds a byte other than a digit, '-' or '.'.
Malformed(l) ==
    /\ l # <<>>
    /\ LET i == IndexFrom(l, SEMI, 1)
       IN  \/ i = 0
           \/ \E j \in (i + 1) .. Len(l) :
                 ~IsDigit(l[j]) /\ l[j] # MINUS /\ l[j] # DOT

\* Index of the first malformed line of the stream a LabScanRaw call scanned,
\* 0 when every line is well-formed.
FirstMalformed ==
    LET bad == { i \in 1 .. Len(lab.lines) : Malformed(lab.lines[i]) }
    IN  IF bad = {} THEN 0 ELSE CHOOSE i \in bad : \A j \in bad : i <= j

\* C14: when the stream holds a malformed line, citymap_naive panics, returns
\* no table, and has handed no line after the first malformed one to lookup.
C14_FormatErrorsAreFatal ==
    (lab.kind = "rawscan" /\ FirstMalformed # 0)
        => /\ ~lab.out.ok
           /\ Len(lab.out.log) <= FirstMalformed

C18_DefaultIsIdentity ==
    lab.kind = "identity"
        => /\ lab.left = lab.a
           /\ lab.right = lab.a
           /\ lab.first.min = lab.v
           /\ lab.first.max = lab.v
           /\ lab.first.occurrences = 1

\* The default was combined with an aggregate of two records, min -4.5 and
\* max 12.3.
C18_Witness ==
    /\ lab.kind = "identity"
    /\ lab.a = [min |-> -45, max |-> 123, sum |-> 0, occurrences |-> 2]
    /\ lab.left = lab.a
    /\ lab.v = -45

\* The workers whose range the coordinator has received, in order of receipt.
ReceivedFrom ==
    SubSeq(hist.senders, 1, Len(hist.senders) - Len(chan))

\* C16: in a run without I/O error each worker sends at most one range and
\* has sent exactly one when it begins to scan; once the coordinator has left
\* its receive loop it holds exactly N ranges, one from each worker; it has
\* audited them before it joins any worker; and each worker's table is folded
\* into the result at most once, exactly once when the result is returned.
C16_OneShotReport ==
    ioFaults = 0
        => /\ \A w \in Workers : hist.sent[w] <= 1
           /\ \A w \in hist.scanned : hist.sent[w] = 1
           /\ cpc \notin {"spawn", "recv"}
                 => /\ Len(ranges) = cpus
                    /\ Len(ReceivedFrom) = cpus
                    /\ \A w \in Workers :
                          \E i \in 1 .. cpus : ReceivedFrom[i] = w
           /\ (joined > 0 \/ \E w \in Workers : hist.merged[w] > 0)
                 => hist.audited
           /\ hist.audited => Len(ranges) = cpus
           /\ \A w \in Workers : hist.merged[w] <= 1
           /\ cpc = "done" => \A w \in Workers : hist.merged[w] = 1

\* A run of three workers returned its table: three ranges were sent,
\* received and audited, and three tables folded.
C16_Witness ==
    /\ cpc = "done"
    /\ cpus = 3
    /\ ioFaults = 0
    /\ file = ExampleFile
    /\ hist.audited
    /\ Len(hist.senders) = 3
    /\ \A w \in Workers : hist.merged[w] = 1 /\ w \in hist.scanned

\* The table worker w builds, as a function of the file and the worker count.
WorkerTable(w) ==
    citymap_naive(RangeStream(file, AlignRange(file, Candidate(w)))).map

\* The sum over the workers 0 .. w of the field fld of their entry for h.
RECURSIVE SumUpTo(_, _, _)
SumUpTo(h, fld, w) ==
    IF w < 0 THEN 0
    ELSE SumUpTo(h, fld, w - 1)
           + (IF h \in DOMAIN WorkerTable(w) THEN WorkerTable(w)[h].city[fld] ELSE 0)

\* The table a run of the file with the worker count returns, worked out
\* from the file and the count alone: per key the name the first worker
\* holding it stored, the least min, the greatest max and the sums.
ScheduleFreeTable ==
    [h \in UNION { DOMAIN WorkerTable(w) : w \in Workers } |->
        LET holders == { w \in Workers : h \in DOMAIN WorkerTable(w) }
            first   == CHOOSE w \in holders : \A v \in holders : w <= v
            mins    == { WorkerTable(w)[h].city.min : w \in holders }
            maxs    == { WorkerTable(w)[h].city.max : w \in holders }
        IN  [name |-> WorkerTable(first)[h].name,
             city |-> [min |-> CHOOSE m \in mins : \A x \in mins : m <= x,
                       max |-> CHOOSE m \in maxs : \A x \in maxs : m >= x,
                       sum |-> SumUpTo(h, "sum", cpus - 1),
                       occurrences |-> SumUpTo(h, "occurrences", cpus - 1)]]]

\* Every run that returns a table returns the one the file and the worker
\* count determine.
ReturnedTableIsFixed == cpc = "done" => results = ScheduleFreeTable

\* The verdict of the audit is the one every arrival order of the range
\* reports (every arrangement of the ranges ascending in start) gives.
AuditVerdictIsFixed ==
    AuditDone
        => \A s \in SortOutcomes(ranges) :
              WindowsContiguous(s) <=> cpc # "assert_failed"

\* C17: in the runs without I/O error the outcome of citymap_multi_threaded
\* depends on the file and the worker count alone, not on the interleaving
\* of the workers or the arrival order of their range reports: the table
\* returned is fixed, and so is whether the run returns or panics in the
\* audit.
C17_SchedulingIndependent ==
    ioFaults = 0 => (ReturnedTableIsFixed /\ AuditVerdictIsFixed)

\* C1: for every well-formed file and every worker count, the table returned
\* by citymap_multi_threaded has the same keys and the same min, max, sum and
\* count per key as the table citymap_single_thread returns for the file.
C1_PartitionInvariance ==
    (cpc = "done" /\ WellFormed(file) /\ citymap_single_thread(file).ok)
        => into_key_values(results)
             = into_key_values(citymap_single_thread(file).map)

\* C2: once every worker has scanned its range of a well-formed file, each
\* record of the file has been scanned by exactly one worker: none by no
\* worker, none by two.
C2_ExactlyOnce ==
    (AllDone /\ WellFormed(file))
        => \A r \in Records(file) :
              Cardinality({ w \in Workers : r \in ScannedBy(w) }) = 1

\* C3: the aligned ranges, sorted by start, are a partition of
\* [0, file_length): adjacent ranges meet, the first starts at 0 and the last
\* ends at the length of the file.
C3_RangesPartitionFile ==
    AuditDone
        => /\ WindowsContiguous(ranges)
           /\ ranges[1].start = 0
           /\ ranges[Len(ranges)].end = size

\* The coordinator waits in recv on an empty channel and no worker is left
\* that will send: every worker has sent its range or has panicked.
BlockedForever ==
    /\ cpc = "recv"
    /\ chan = <<>>
    /\ \A w \in Workers : wpc[w] \in {"sent", "done", "panicked"}

\* C8: once a worker has failed, the coordinator neither returns a result
\* table nor is left blocked for ever waiting for a range report.
C8_FailureAborts ==
    (\E w \in Workers : wpc[w] = "panicked")
        => (cpc # "done" /\ ~BlockedForever)

\* C9: the first record a worker feeds to its table, when the worker is not
\* the first and its head lookahead found a terminator, is handed to lookup
\* under exactly the key bytes that record has in the file.
C9_FirstKeyIsRecordKey ==
    \A w \in Workers :
        ( /\ Finished(w)
          /\ Candidate(w).start # 0
          /\ IndexFrom(read_at(file, Candidate(w).start), NL, 1) # 0
          /\ wres[w].log # <<>> )
        => wres[w].log[1].key
             = RecordKey(file, wrange[w].start + wres[w].log[1].semi)

\* C10: for every line a worker's scanner reads, the slice handed to the
\* parser is the record's whole value: the bytes after its ';' up to, and
\* not including, its terminator (or the end of the file).
C10_ValueSliceIsWholeValue ==
    \A w \in Workers :
        \A i \in 1 .. Len(wres[w].log) :
            wres[w].log[i].val
              = RecordValue(file, wrange[w].start + wres[w].log[i].semi)

\* The value of the digit string ds, by the weight of each position.
RECURSIVE NumeralValue(_)
NumeralValue(ds) ==
    IF ds = <<>> THEN 0
    ELSE ds[Len(ds)] + 10 * NumeralValue(SubSeq(ds, 1, Len(ds) - 1))

\* Ten times the number the text of a LabParse call denotes.
LabWant ==
    LET a == 10 * NumeralValue(lab.ints) + lab.frac
    IN  IF lab.neg THEN 0 - a ELSE a

\* C7: for `-?<digits>.<digit>` add_new gives add_new_value the number the
\* text denotes, times 10 and negated under a '-': on a fresh aggregate, min,
\* max and sum become that integer and the count 1.
C7_ParserScalesByTen ==
    lab.kind = "parse"
        => /\ lab.out.ok
           /\ lab.out.city = [min |-> LabWant, max |-> LabWant,
                              sum |-> LabWant, occurrences |-> 1]

\* `-4.5` was parsed, to -45.
C7_Witness ==
    /\ lab.kind = "parse"
    /\ lab.text = <<MINUS, ZERO + 4, DOT, ZERO + 5>>
    /\ lab.out.ok
    /\ lab.out.city.sum = -45

\* C6: lookup never fails, hands out for every key the aggregate stored under
\* that very key text (so no two key texts share one), and inserts an entry
\* exactly when the key is looked up for the first time.
C6_LookupKeepsKeysApart ==
    lab.kind = "lookup"
        => /\ ~lab.failed
           /\ \A p \in lab.slots : lab.map[p[2]].name = p[1]
           /\ lab.created <=> lab.first

\* The values of the records of rs whose key is k, in order.
RECURSIVE ValuesOf(_, _)
ValuesOf(rs, k) ==
    IF rs = <<>> THEN <<>>
    ELSE (IF Head(rs)[1] = k THEN <<Head(rs)[2]>> ELSE <<>>)
           \o ValuesOf(Tail(rs), k)

RECURSIVE SumOf(_)
SumOf(vs) == IF vs = <<>> THEN 0 ELSE Head(vs) + SumOf(Tail(vs))

\* C5: after a scan of well-formed records, every key observed has an entry
\* under its own text whose count is the number of records with that key, sum
\* their sum, min and max their least and greatest value, and
\* min*count <= sum <= max*count.
C5_StatisticsExact ==
    lab.kind = "scan"
        => /\ lab.out.ok
           /\ \A i \in 1 .. Len(lab.recs) :
                 LET k  == lab.recs[i][1]
                     vs == ValuesOf(lab.recs, k)
                 IN  \E h \in DOMAIN lab.out.map :
                        LET e == lab.out.map[h]
                        IN  /\ e.name = k
                            /\ e.city.occurrences = Len(vs)
                            /\ e.city.sum = SumOf(vs)
                            /\ \E j \in 1 .. Len(vs) : e.city.min = vs[j]
                            /\ \E j \in 1 .. Len(vs) : e.city.max = vs[j]
                            /\ \A j \in 1 .. Len(vs) :
                                  e.city.min <= vs[j] /\ vs[j] <= e.city.max
                            /\ e.city.min * e.city.occurrences <= e.city.sum
                            /\ e.city.sum <= e.city.max * e.city.occurrences

\* C4: merge_with is commutative and associative on tables built by scans,
\* comparing the stored key text and the aggregate of every entry.
C4_MergeCommutesAssociates ==
    lab.kind = "merge"
        => /\ into_key_values(lab.AB) = into_key_values(lab.BA)
           /\ into_key_values(lab.AB_C) = into_key_values(lab.A_BC)

====
